---------------------------- MODULE Spec2Model ----------------------------
(***************************************************************************)
(* Resume Parser API (src/main.py): the FastAPI application that accepts a *)
(* PDF upload, extracts its text, asks the language-model chain for a JSON *)
(* object, builds an ArchivedResume, writes it to                          *)
(* analyses_storage/<id>.json, and serves the list and the detail of the   *)
(* stored analyses.                                                        *)
(*                                                                         *)
(* Python values are tagged records [k |-> kind, v |-> payload]; a str is  *)
(* a sequence of one-character strings, so that strip() and the            *)
(* lexicographic comparison of list.sort are computed, not assumed.  JSON  *)
(* values are tagged the same way with JSON's own kinds, so json.dump and  *)
(* json.load are conversions between two representations.                  *)
(***************************************************************************)
EXTENDS Integers, Sequences, FiniteSets, TLC

(***************************************************************************)
(* Bounds of the model.                                                    *)
(***************************************************************************)
\* Number of POST /parse-resume requests a behaviour may contain.
NReq == 2
\* The wall clock runs over seconds 0..MaxSecond of one minute.
MaxSecond == 1

(***************************************************************************)
(* Python values.                                                          *)
(***************************************************************************)
PyNone == [k |-> "None", v |-> <<>>]
PyStr(s) == [k |-> "str", v |-> s]
PyList(items) == [k |-> "list", v |-> items]
PyDict(f) == [k |-> "dict", v |-> f]

IsStr(x) == x.k = "str"
IsOptionalStr(x) == x.k = "str" \/ x.k = "None"

\* dict.get(key): the value, or None when the key is absent.
DictGet(d, key) == IF key \in DOMAIN d.v THEN d.v[key] ELSE PyNone

(***************************************************************************)
(* str: characters, code points, strip, comparison.                        *)
(***************************************************************************)
\* Code points of the characters that occur in the keys list.sort compares.
Ord(c) ==
    CASE c = "\n" -> 10
      [] c = " " -> 32
      [] c = "+" -> 43
      [] c = "-" -> 45
      [] c = "." -> 46
      [] c = "0" -> 48
      [] c = "1" -> 49
      [] c = "2" -> 50
      [] c = "3" -> 51
      [] c = "4" -> 52
      [] c = "5" -> 53
      [] c = "6" -> 54
      [] c = "7" -> 55
      [] c = "8" -> 56
      [] c = "9" -> 57
      [] c = ":" -> 58
      [] OTHER -> 97

IsSpace(c) == c \in {" ", "\n", "\t"}

RECURSIVE LStrip(_)
LStrip(s) == IF s # <<>> /\ IsSpace(Head(s)) THEN LStrip(Tail(s)) ELSE s

RECURSIVE RStrip(_)
RStrip(s) ==
    IF s # <<>> /\ IsSpace(s[Len(s)]) THEN RStrip(SubSeq(s, 1, Len(s) - 1)) ELSE s

\* str.strip(): leading and trailing whitespace removed.
Strip(s) == RStrip(LStrip(s))

\* a < b on two str, as Python compares them: code point by code point, a
\* proper prefix being the smaller.
RECURSIVE StrLess(_, _)
StrLess(a, b) ==
    IF b = <<>> THEN FALSE
    ELSE IF a = <<>> THEN TRUE
    ELSE IF Ord(Head(a)) # Ord(Head(b)) THEN Ord(Head(a)) < Ord(Head(b))
    ELSE StrLess(Tail(a), Tail(b))

(***************************************************************************)
(* The pydantic models.                                                    *)
(***************************************************************************)
NotSpecified == PyStr(<<"N", "o", "t", " ", "s", "p", "e", "c", "i", "f", "i", "e", "d">>)

ExperienceFields == {"title", "company", "date", "description"}
EducationFields == {"degree", "institution", "date"}
ScalarFields == {"name", "email", "phone", "summary"}
ListFields == {"experience", "education", "skills"}
ResumeDataFields == ScalarFields \cup ListFields
MetaFields == {"id", "filename", "timestamp"}
ArchivedResumeFields == ResumeDataFields \cup MetaFields

\* Experience(**d) and Education(**d): every field Optional[str] with the
\* default "Not specified"; unknown keys are ignored.
SubModelValid(fields, d) ==
    /\ d.k = "dict"
    /\ \A f \in fields \cap DOMAIN d.v : IsOptionalStr(d.v[f])

SubModel(fields, d) ==
    PyDict([f \in fields |-> IF f \in DOMAIN d.v THEN d.v[f] ELSE NotSpecified])

\* A variant: every field declared with the default None.
FieldDefaultNone(f) == IF f \in ScalarFields THEN PyNone ELSE PyList(<<>>)

\* The declared default of a ResumeData field.
FieldDefault(f) == IF f \in ScalarFields THEN NotSpecified ELSE PyList(<<>>)

ItemFields(f) == IF f = "experience" THEN ExperienceFields ELSE EducationFields

\* Validation of one ResumeData field value.
FieldValid(f, x) ==
    IF f \in ScalarFields THEN IsOptionalStr(x)
    ELSE IF f = "skills" THEN x.k = "list" /\ \A i \in DOMAIN x.v : IsStr(x.v[i])
    ELSE x.k = "list" /\ \A i \in DOMAIN x.v : SubModelValid(ItemFields(f), x.v[i])

\* The validated value of one ResumeData field.
FieldValue(f, x) ==
    IF f \in ScalarFields \/ f = "skills" THEN x
    ELSE PyList([i \in DOMAIN x.v |-> SubModel(ItemFields(f), x.v[i])])

\* Field f of a model built from the keyword arguments kw: the validated
\* argument when one is given, the declared default otherwise.
ResumeField(f, kw) == IF f \in DOMAIN kw THEN FieldValue(f, kw[f]) ELSE FieldDefault(f)

\* Whether ArchivedResume(**kw) validates: id, filename and timestamp are
\* required str, the ResumeData fields are validated when given.
ArchivedResumeValid(kw) ==
    /\ \A f \in MetaFields : f \in DOMAIN kw /\ IsStr(kw[f])
    /\ \A f \in ResumeDataFields \cap DOMAIN kw : FieldValid(f, kw[f])

\* The model ArchivedResume(**kw) builds, as the dict its .dict() returns.
ArchivedResume(kw) ==
    PyDict([f \in ArchivedResumeFields |->
              IF f \in MetaFields THEN kw[f] ELSE ResumeField(f, kw)])

\* AnalysisStub validation of one history entry.
AnalysisStubValid(e) == \A f \in MetaFields : f \in DOMAIN e.v /\ IsStr(e.v[f])


(***************************************************************************)
(* JSON: the values, json.dump and json.load.                              *)
(***************************************************************************)
JNull == [k |-> "null", v |-> <<>>]
JString(s) == [k |-> "string", v |-> s]
JArray(items) == [k |-> "array", v |-> items]
JObject(f) == [k |-> "object", v |-> f]

\* The JSON value json.dump writes for a Python value.
RECURSIVE ToJson(_)
ToJson(x) ==
    CASE x.k = "None" -> JNull
      [] x.k = "str" -> JString(x.v)
      [] x.k = "list" -> JArray([i \in DOMAIN x.v |-> ToJson(x.v[i])])
      [] x.k = "dict" -> JObject([key \in DOMAIN x.v |-> ToJson(x.v[key])])

\* The Python value json.load builds from a JSON value.
RECURSIVE FromJson(_)
FromJson(j) ==
    CASE j.k = "null" -> PyNone
      [] j.k = "string" -> PyStr(j.v)
      [] j.k = "array" -> PyList([i \in DOMAIN j.v |-> FromJson(j.v[i])])
      [] j.k = "object" -> PyDict([key \in DOMAIN j.v |-> FromJson(j.v[key])])

\* The order in which .dict() lists the fields of an ArchivedResume: the
\* inherited ResumeData fields first, then its own.
FieldOrder ==
    <<"name", "email", "phone", "summary", "experience", "education", "skills",
      "id", "filename", "timestamp">>

\* A file of the storage directory: the top-level form of its text, the
\* members written so far (for an object), and whether the text is a
\* complete JSON document.
EmptyFile == [top |-> "object", members |-> <<>>, complete |-> FALSE]

\* A variant: the dict written with its None values left out.
DumpMembersExcludeNone(d) ==
    SelectSeq([i \in 1..Len(FieldOrder) |->
                 [key |-> FieldOrder[i], value |-> ToJson(d.v[FieldOrder[i]])]],
              LAMBDA m : m.value.k # "null")

\* The members json.dump writes for the dict d, in order.
DumpMembers(d) ==
    [i \in 1..Len(FieldOrder) |->
        [key |-> FieldOrder[i], value |-> ToJson(d.v[FieldOrder[i]])]]

\* The file after json.dump(d, f) ran to the end and the file was closed.
DumpedFile(d) == [top |-> "object", members |-> DumpMembers(d), complete |-> TRUE]

\* The file after json.dump(d, f) raised once n members were written.
TruncatedFile(d, n) ==
    [top |-> "object", members |-> SubSeq(DumpMembers(d), 1, n), complete |-> FALSE]

\* json.load raises JSONDecodeError on a text that is no complete JSON document.
JsonDecodeError(file) == ~file.complete \/ file.top = "garbage"

\* json.load(f) of a complete document.
JsonLoad(file) ==
    IF file.top = "object"
    THEN PyDict([key \in {file.members[i].key : i \in DOMAIN file.members} |->
                   FromJson(file.members[CHOOSE i \in DOMAIN file.members :
                                           file.members[i].key = key].value)])
    ELSE PyList(<<>>)

(***************************************************************************)
(* Text extraction (PyPDF2), the clock and the identifiers.                *)
(***************************************************************************)
\* page.extract_text() or "": a page without text counts as the empty str.
PageText(page) == IF page.k = "None" THEN <<>> ELSE page.v

\* The text of all pages, concatenated in page order.
RECURSIVE ExtractText(_)
ExtractText(pages) ==
    IF pages = <<>> THEN <<>> ELSE PageText(Head(pages)) \o ExtractText(Tail(pages))

Digit(n) == <<"0", "1", "2", "3", "4", "5", "6", "7", "8", "9">>[n + 1]

TwoDigits(n) == <<Digit(n \div 10), Digit(n % 10)>>

SixDigits(n) ==
    <<Digit(n \div 100000), Digit((n \div 10000) % 10), Digit((n \div 1000) % 10),
      Digit((n \div 100) % 10), Digit((n \div 10) % 10), Digit(n % 10)>>

\* A variant: the offset written as "Z".
IsoFormatZulu(t) ==
    TwoDigits(t.second)
      \o (IF t.microsecond = 0 THEN <<>> ELSE <<".">> \o SixDigits(t.microsecond))
      \o <<"Z">>

\* datetime.isoformat() of an aware UTC datetime: the fixed-width,
\* zero-padded date and time fields (the model carries the seconds field;
\* the fields before it are formatted the same way), the microseconds only
\* when they are not zero, and the offset.
IsoFormat(t) ==
    TwoDigits(t.second)
      \o (IF t.microsecond = 0 THEN <<>> ELSE <<".">> \o SixDigits(t.microsecond))
      \o <<"+", "0", "0", ":", "0", "0">>

\* The microsecond readings the clock of the model takes.
Micros == {0, 500000}

ClockValues == [second : 0..MaxSecond, microsecond : Micros]

\* Reading a is earlier than reading b.
Earlier(a, b) ==
    \/ a.second < b.second
    \/ a.second = b.second /\ a.microsecond < b.microsecond

\* A variant: a generator that repeats itself.
Uuid4Fixed(n) == <<"1">>

\* str(uuid.uuid4()): the n-th identifier drawn; uuid4 draws 122 random bits
\* and is modelled by its contract, a value not drawn before.
Uuid4(n) == <<Digit(n)>>

\* A variant: the record saved under the name of the upload.
SavePathByFilename(analysis) == analysis.v["filename"].v

\* The key (file name without directory and extension) a record is saved
\* under: f"{STORAGE_DIR}/{new_analysis.id}.json".
SavePath(analysis) == analysis.v["id"].v

(***************************************************************************)
(* Requests, uploads and what the language-model chain may answer.         *)
(***************************************************************************)
Requests == 1..NReq

\* Some str values (a str is a sequence of characters).
CvPdf == PyStr(<<"c", "v">>)
NotesTxt == PyStr(<<"n", "t">>)

\* An upload: the declared content type, the file name (None when the part
\* carries none), whether the bytes are a PDF PyPDF2 can open, and what
\* extract_text() returns for each page.
Uploads ==
    { [content_type |-> "text/plain", filename |-> NotesTxt, valid |-> TRUE,
       pages |-> <<PyStr(<<"J", "D">>)>>],
      [content_type |-> "application/pdf", filename |-> CvPdf, valid |-> FALSE,
       pages |-> <<>>],
      [content_type |-> "application/pdf", filename |-> CvPdf, valid |-> TRUE,
       pages |-> <<PyNone>>],
      [content_type |-> "application/pdf", filename |-> CvPdf, valid |-> TRUE,
       pages |-> <<PyNone, PyStr(<<" ", "\n">>)>>],
      [content_type |-> "application/pdf", filename |-> CvPdf, valid |-> TRUE,
       pages |-> <<PyStr(<<" ", "J">>), PyNone, PyStr(<<"D", "\n">>)>>] }

NoUpload == [content_type |-> "", filename |-> PyNone, valid |-> FALSE, pages |-> <<>>]

\* A JSON object that names every ResumeData field: phone is null, the
\* experience item leaves fields out, the education item is complete.
FullObject ==
    [name |-> JString(<<"J", "D">>),
     email |-> JString(<<"j", "@", "x">>),
     phone |-> JNull,
     summary |-> JString(<<"s">>),
     experience |-> JArray(<<JObject([title |-> JString(<<"t">>)])>>),
     education |-> JArray(<<JObject([degree |-> JString(<<"d">>),
                                     institution |-> JString(<<"i">>),
                                     date |-> JNull])>>),
     skills |-> JArray(<<JString(<<"P", "y">>), JString(<<"A", "W", "S">>)>>)]

\* FullObject cut down to the keys of the set keys.
Restrict(keys) == JObject([key \in keys |-> FullObject[key]])

\* What awaiting chain.ainvoke ends with: a backend fault, an answer the
\* JSON parser rejects, or the parsed JSON value.
Fault == [kind |-> "fault", value |-> JNull]
Malformed == [kind |-> "malformed", value |-> JNull]
Answer(j) == [kind |-> "json", value |-> j]

\* The answers of the main specification: no usable answer, a JSON array,
\* a key that collides with a keyword argument, a value of the wrong type,
\* the scenario of the specification, every field.
BackendOutcomes ==
    { Fault, Malformed,
      Answer(JArray(<<>>)),
      Answer(JObject([id |-> JString(<<"7">>)])),
      Answer(JObject([skills |-> JNull])),
      Answer(Restrict(ResumeDataFields)) }

\* Every JSON object that names a subset of the ResumeData fields.
SubsetOutcomes == {Answer(Restrict(keys)) : keys \in SUBSET ResumeDataFields}

(***************************************************************************)
(* State.                                                                  *)
(***************************************************************************)
VARIABLES
    pc,            \* where each POST /parse-resume request stands
    upload,        \* file: the upload of each request
    text,          \* text: the text extracted for each request
    parsed_data,   \* parsed_data: what the chain returned to each request
    new_analysis,  \* new_analysis: the ArchivedResume each request built
    resp,          \* the HTTP response of each request
    effects,       \* what each request has attempted so far
    storage,       \* the files of STORAGE_DIR, by name
    created,       \* the records persisted, in order: file name, clock reading
    now,           \* the latest reading of the wall clock
    issued,        \* how many identifiers uuid4 has drawn
    getResp        \* the response of the GET request the latest step served

vars ==
    <<pc, upload, text, parsed_data, new_analysis, resp, effects, storage,
      created, now, issued, getResp>>

NoResp == [status |-> 0, detail |-> "", body |-> JNull]

\* getResp after a step that served no GET request.
NoGet == [op |-> "none"] @@ NoResp

Init ==
    /\ pc = [r \in Requests |-> "idle"]
    /\ upload = [r \in Requests |-> NoUpload]
    /\ text = [r \in Requests |-> <<>>]
    /\ parsed_data = [r \in Requests |-> PyNone]
    /\ new_analysis = [r \in Requests |-> PyNone]
    /\ resp = [r \in Requests |-> NoResp]
    /\ effects = [r \in Requests |-> {}]
    /\ storage = [key \in {} |-> EmptyFile]
    /\ created = <<>>
    /\ now = [second |-> 0, microsecond |-> 0]
    /\ issued = 0
    /\ getResp = NoGet

(***************************************************************************)
(* POST /parse-resume.                                                     *)
(***************************************************************************)
\* The exceptions the handler raises.
HTTPException(status, detail) == [exc |-> "HTTPException", status |-> status, detail |-> detail]
Exception(detail) == [exc |-> "Exception", status |-> 0, detail |-> detail]

\* A variant: without the clause that raises an HTTPException again.
ExceptClausesCatchAll(e) == HTTPException(500, "An unexpected error occurred")

\* The except clauses of parse_resume: an HTTPException is raised again as
\* it is, anything else becomes a 500.
ExceptClauses(e) ==
    IF e.exc = "HTTPException" THEN e
    ELSE HTTPException(500, "An unexpected error occurred")

\* The response FastAPI sends for an HTTPException that leaves the handler.
ErrorResponse(e) == [status |-> e.status, detail |-> e.detail, body |-> JNull]

\* The response for a returned model: the response_model's JSON encoding.
ModelResponse(model) == [status |-> 200, detail |-> "", body |-> ToJson(model)]

\* A variant: a check that lets text through.
IsPdfOrText(file) == file.content_type \in {"application/pdf", "text/plain"}

\* The content type check.
IsPdf(file) == file.content_type = "application/pdf"

\* "not text.strip()".
IsBlank(t) == Strip(t) = <<>>

\* POST handlers are coroutines of one event loop: between two awaits a
\* request runs alone, so no other request steps while r is between open()
\* and the end of json.dump.
LoopFree(r) == \A q \in Requests \ {r} : pc[q] # "writing"

\* Request r ends with the exception e raised inside the try block; the
\* frame of the handler is unwound and its locals are gone.
Raise(r, e) ==
    /\ resp' = [resp EXCEPT ![r] = ErrorResponse(ExceptClauses(e))]
    /\ pc' = [pc EXCEPT ![r] = "done"]
    /\ text' = [text EXCEPT ![r] = <<>>]
    /\ parsed_data' = [parsed_data EXCEPT ![r] = PyNone]
    /\ new_analysis' = [new_analysis EXCEPT ![r] = PyNone]

\* The request arrives; the content type is checked before the try block.
\* The request slots are taken in order.
PostStart(r) ==
    /\ pc[r] = "idle"
    /\ \A q \in Requests : q < r => pc[q] # "idle"
    /\ LoopFree(r)
    /\ \E file \in Uploads :
         /\ upload' = [upload EXCEPT ![r] = file]
         /\ IF ~IsPdf(file)
            THEN /\ resp' = [resp EXCEPT ![r] =
                       ErrorResponse(HTTPException(400, "Invalid file type. Please upload a PDF."))]
                 /\ pc' = [pc EXCEPT ![r] = "done"]
            ELSE /\ pc' = [pc EXCEPT ![r] = "reading"]
                 /\ UNCHANGED resp
    /\ getResp' = NoGet
    /\ UNCHANGED <<text, parsed_data, new_analysis, effects, storage, created,
                   now, issued>>

\* file.read() returns; PyPDF2 opens the bytes and extracts the text; the
\* blank check; chain.ainvoke is called and the request is suspended.
PostExtract(r) ==
    /\ pc[r] = "reading"
    /\ LoopFree(r)
    /\ IF ~upload[r].valid
       THEN /\ Raise(r, Exception("PdfReadError"))
            /\ effects' = [effects EXCEPT ![r] = @ \cup {"extract"}]
       ELSE LET t == ExtractText(upload[r].pages) IN
            IF IsBlank(t)
            THEN /\ Raise(r, HTTPException(400, "Could not extract text from PDF."))
                 /\ effects' = [effects EXCEPT ![r] = @ \cup {"extract"}]
            ELSE /\ text' = [text EXCEPT ![r] = t]
                 /\ pc' = [pc EXCEPT ![r] = "awaiting"]
                 /\ effects' = [effects EXCEPT ![r] = @ \cup {"extract", "backend"}]
                 /\ UNCHANGED <<resp, parsed_data, new_analysis>>
    /\ getResp' = NoGet
    /\ UNCHANGED <<upload, storage, created, now, issued>>

\* datetime.now(timezone.utc): the wall clock is read; it does not run
\* backwards, and two readings may be equal.
ClockReadings == {t \in ClockValues : ~Earlier(t, now)}

\* The keyword arguments of ArchivedResume(id=..., filename=...,
\* timestamp=..., **parsed_data), the clock reading t.
Keywords(r, data, t) ==
    data.v @@ [id |-> PyStr(Uuid4(issued + 1)),
               filename |-> upload[r].filename,
               timestamp |-> PyStr(IsoFormat(t))]

\* The call raises TypeError when parsed_data is no mapping or repeats a
\* keyword.
KeywordsClash(data) == data.k # "dict" \/ DOMAIN data.v \cap MetaFields # {}

\* chain.ainvoke returns or raises; the record is built; the file is opened
\* for writing (created empty, or the open fails).
PostResume(r, outcomes) ==
    /\ pc[r] = "awaiting"
    /\ LoopFree(r)
    /\ \E o \in outcomes, t \in ClockReadings :
         LET data == FromJson(o.value) IN
         IF o.kind # "json"
         THEN /\ Raise(r, Exception(o.kind))
              /\ UNCHANGED <<effects, storage, issued, now>>
         ELSE /\ issued' = issued + 1
              /\ now' = t
              /\ IF KeywordsClash(data)
                 THEN /\ Raise(r, Exception("TypeError"))
                      /\ UNCHANGED <<effects, storage>>
                 ELSE IF ~ArchivedResumeValid(Keywords(r, data, t))
                 THEN /\ Raise(r, Exception("ValidationError"))
                      /\ UNCHANGED <<effects, storage>>
                 ELSE LET model == ArchivedResume(Keywords(r, data, t)) IN
                      /\ effects' = [effects EXCEPT ![r] = @ \cup {"open"}]
                      /\ \/ /\ storage' = (SavePath(model) :> EmptyFile) @@ storage
                            /\ parsed_data' = [parsed_data EXCEPT ![r] = data]
                            /\ new_analysis' = [new_analysis EXCEPT ![r] = model]
                            /\ pc' = [pc EXCEPT ![r] = "writing"]
                            /\ UNCHANGED <<resp, text>>
                         \/ /\ Raise(r, Exception("OSError"))
                            /\ UNCHANGED storage
    /\ getResp' = NoGet
    /\ UNCHANGED <<upload, created>>

\* The numbers of members after which json.dump may raise (a write the
\* file system refuses): once the id is written.  Before json.dump writes
\* anything the file is there and empty (EmptyFile).
DumpFailPoints == {8}

\* json.dump runs to the end and the record is returned, or it raises part
\* of the way and the with block closes what was written.
PostDump(r) ==
    /\ pc[r] = "writing"
    /\ LET d == new_analysis[r]
           key == SavePath(d) IN
       \/ /\ storage' = [storage EXCEPT ![key] = DumpedFile(d)]
          /\ created' = Append(created, [key |-> key, at |-> now])
          /\ resp' = [resp EXCEPT ![r] = ModelResponse(d)]
          /\ pc' = [pc EXCEPT ![r] = "done"]
          /\ UNCHANGED <<text, parsed_data, new_analysis>>
       \/ /\ \E n \in DumpFailPoints :
               storage' = [storage EXCEPT ![key] = TruncatedFile(d, n)]
          /\ Raise(r, Exception("OSError"))
          /\ UNCHANGED created
    /\ getResp' = NoGet
    /\ UNCHANGED <<upload, effects, now, issued>>

(***************************************************************************)
(* GET /, GET /analyses, GET /analyses/{analysis_id}.                      *)
(***************************************************************************)
\* The orders in which glob.glob may list the files of the set keys.
Orders(keys) ==
    {o \in [1..Cardinality(keys) -> keys] : \A i, j \in DOMAIN o : o[i] = o[j] => i = j}

\* The entry get_analyses_history appends for the loaded dict data.
HistoryEntry(data) ==
    PyDict([id |-> DictGet(data, "id"),
            filename |-> DictGet(data, "filename"),
            timestamp |-> DictGet(data, "timestamp")])

\* The files of the order whose json.load does not raise JSONDecodeError
\* (the except clause skips the others).
RECURSIVE Loadable(_, _)
Loadable(files, order) ==
    IF order = <<>> THEN <<>>
    ELSE (IF JsonDecodeError(files[Head(order)]) THEN <<>> ELSE <<Head(order)>>)
           \o Loadable(files, Tail(order))

\* The sort key x['timestamp'] of a history entry.
SortKey(e) == e.v["timestamp"]

\* x placed into a list sorted in descending key order, after the entries
\* whose key is not smaller (list.sort is stable, also with reverse=True).
RECURSIVE InsertDescending(_, _)
InsertDescending(x, sorted) ==
    IF sorted = <<>> THEN <<x>>
    ELSE IF StrLess(SortKey(Head(sorted)).v, SortKey(x).v) THEN <<x>> \o sorted
    ELSE <<Head(sorted)>> \o InsertDescending(x, Tail(sorted))

\* history.sort(key=lambda x: x['timestamp'], reverse=True).
RECURSIVE SortDescending(_)
SortDescending(history) ==
    IF history = <<>> THEN <<>>
    ELSE InsertDescending(history[Len(history)],
                          SortDescending(SubSeq(history, 1, Len(history) - 1)))

\* The sort compares keys once the list holds two entries; comparing None
\* raises TypeError.
SortRaises(history) ==
    Len(history) >= 2 /\ \E i \in DOMAIN history : ~IsStr(SortKey(history[i]))

\* get_analyses_history over the files, listed by glob in the given order.
ListHistory(files, order) ==
    LET names == Loadable(files, order)
        loaded == [i \in DOMAIN names |-> JsonLoad(files[names[i]])] IN
    IF \E i \in DOMAIN loaded : loaded[i].k # "dict"
    THEN [status |-> 500, detail |-> "AttributeError", body |-> JNull]
    ELSE LET history == [i \in DOMAIN loaded |-> HistoryEntry(loaded[i])] IN
         IF SortRaises(history)
         THEN [status |-> 500, detail |-> "TypeError", body |-> JNull]
         ELSE IF \E i \in DOMAIN history : ~AnalysisStubValid(history[i])
         THEN [status |-> 500, detail |-> "ResponseValidationError", body |-> JNull]
         ELSE [status |-> 200, detail |-> "", body |-> ToJson(PyList(SortDescending(history)))]

\* get_analysis_detail over the files, for the path parameter analysis_id.
AnalysisDetail(files, analysis_id) ==
    IF analysis_id \notin DOMAIN files
    THEN ErrorResponse(HTTPException(404, "Analysis not found"))
    ELSE IF JsonDecodeError(files[analysis_id])
    THEN ErrorResponse(HTTPException(500, "Error reading analysis data"))
    ELSE LET data == JsonLoad(files[analysis_id]) IN
         IF data.k # "dict" \/ ~ArchivedResumeValid(data.v)
         THEN [status |-> 500, detail |-> "ResponseValidationError", body |-> JNull]
         ELSE ModelResponse(ArchivedResume(data.v))

\* The identifiers a client may ask for: those uuid4 can have drawn, and
\* one more.
AskedIds == {Uuid4(n) : n \in 1..(NReq + 1)}

ReadRoot ==
    /\ getResp' = [op |-> "root", status |-> 200, detail |-> "API is running",
                   body |-> JNull]
    /\ UNCHANGED <<pc, upload, text, parsed_data, new_analysis, resp, effects,
                   storage, created, now, issued>>

GetAnalysesHistory ==
    /\ \E order \in Orders(DOMAIN storage) :
         getResp' = [op |-> "list"] @@ ListHistory(storage, order)
    /\ UNCHANGED <<pc, upload, text, parsed_data, new_analysis, resp, effects,
                   storage, created, now, issued>>

GetAnalysisDetail ==
    /\ \E analysis_id \in AskedIds \cup DOMAIN storage :
         getResp' = [op |-> "detail"] @@ AnalysisDetail(storage, analysis_id)
    /\ UNCHANGED <<pc, upload, text, parsed_data, new_analysis, resp, effects,
                   storage, created, now, issued>>

(***************************************************************************)
(* Specifications.                                                         *)
(***************************************************************************)
Next ==
    \/ \E r \in Requests : PostStart(r)
    \/ \E r \in Requests : PostExtract(r)
    \/ \E r \in Requests : PostResume(r, BackendOutcomes)
    \/ \E r \in Requests : PostDump(r)
    \/ ReadRoot
    \/ GetAnalysesHistory
    \/ GetAnalysisDetail

Spec == Init /\ [][Next]_vars

\* One request at a time, the chain answering with any JSON object over
\* the ResumeData fields.
NextFields ==
    \/ PostStart(1)
    \/ PostExtract(1)
    \/ PostResume(1, SubsetOutcomes)
    \/ PostDump(1)
    \/ ReadRoot
    \/ GetAnalysesHistory
    \/ GetAnalysisDetail

SpecFields == Init /\ [][NextFields]_vars

\* The storage directory is a directory of the file system: files that the
\* application did not write may appear in it.
ForeignKeys == {<<"x">>, <<"y">>}

ForeignFiles ==
    { [top |-> "garbage", members |-> <<>>, complete |-> TRUE],
      [top |-> "array", members |-> <<>>, complete |-> TRUE],
      [top |-> "object",
       members |-> <<[key |-> "id", value |-> JString(<<"x">>)],
                     [key |-> "filename", value |-> JString(<<"c", "v">>)]>>,
       complete |-> TRUE] }

ForeignWrite ==
    /\ \E key \in ForeignKeys, file \in ForeignFiles : storage' = (key :> file) @@ storage
    /\ getResp' = NoGet
    /\ UNCHANGED <<pc, upload, text, parsed_data, new_analysis, resp, effects,
                   created, now, issued>>

NextEnv ==
    \/ PostStart(1)
    \/ PostExtract(1)
    \/ PostResume(1, BackendOutcomes)
    \/ PostDump(1)
    \/ ReadRoot
    \/ GetAnalysesHistory
    \/ GetAnalysisDetail
    \/ ForeignWrite

SpecEnv == Init /\ [][NextEnv]_vars


(***************************************************************************)
(* Properties.                                                             *)
(***************************************************************************)
\* Request r has returned a record.
Succeeded(r) == pc[r] = "done" /\ resp[r].status = 200

\* The identifier of the record request r returned.
ReturnedId(r) == resp[r].body.v["id"].v

\* The file names of the records persisted so far.
CreatedKeys == {created[i].key : i \in DOMAIN created}

\* The clock reading the record saved under key was created at.
CreatedAt(key) == created[CHOOSE i \in DOMAIN created : created[i].key = key].at

\* The identifiers of a list response, in the order of the list.
ListedIds(res) == [i \in DOMAIN res.body.v |-> res.body.v[i].v["id"].v]

\* The place of key in a sequence of identifiers.
PlaceOf(ids, key) == CHOOSE i \in DOMAIN ids : ids[i] = key

\* Every page is without text or holds whitespace only.
AllWhitespace(pages) ==
    \A i \in DOMAIN pages :
        pages[i].k = "None" \/ \A j \in DOMAIN pages[i].v : pages[i].v[j] \in {" ", "\n", "\t"}

\* C1: whenever a POST /parse-resume has returned a record, GET
\* /analyses/{id} with the id of that record answers 200 with a body equal,
\* field for field, to the body the POST returned.
C1_CreateThenGet ==
    \A r \in Requests :
        Succeeded(r) => AnalysisDetail(storage, ReturnedId(r)) = resp[r]

\* A POST returned a record whose phone is null, and the GET served by the
\* latest step returned the same record.
C1_Witness ==
    \E r \in Requests :
        /\ Succeeded(r)
        /\ resp[r].body.v["phone"] = JNull
        /\ getResp.op = "detail"
        /\ getResp.status = 200
        /\ getResp.body = resp[r].body

\* C2: the step that receives an upload whose content type is not
\* application/pdf ends the request with 400; the request has attempted
\* neither extraction nor the backend call nor a write, and the storage
\* directory is as it was.
C2_NonPdfRejected ==
    [][\A r \in Requests :
          (pc[r] = "idle" /\ pc'[r] # "idle" /\ upload'[r].content_type # "application/pdf")
            => /\ pc'[r] = "done"
               /\ resp'[r].status = 400
               /\ effects'[r] = {}
               /\ storage' = storage]_vars

\* A request with a text/plain upload, whose bytes are a readable PDF with
\* text, has ended with 400.
C2_Witness ==
    \E r \in Requests :
        /\ pc[r] = "done"
        /\ upload[r].content_type = "text/plain"
        /\ upload[r].valid
        /\ ~AllWhitespace(upload[r].pages)
        /\ resp[r].status = 400

\* C3: the step that extracts the text of a PDF whose pages hold no text or
\* whitespace only ends the request with 400 (not 500); the backend is not
\* called and the storage directory is as it was.
C3_BlankRejected ==
    [][\A r \in Requests :
          (pc[r] = "reading" /\ pc'[r] # "reading" /\ upload[r].valid
             /\ AllWhitespace(upload[r].pages))
            => /\ pc'[r] = "done"
               /\ resp'[r].status = 400
               /\ "backend" \notin effects'[r]
               /\ "open" \notin effects'[r]
               /\ storage' = storage]_vars

\* A request whose PDF holds a page of whitespace has ended with 400 after
\* the extraction.
C3_Witness ==
    \E r \in Requests :
        /\ pc[r] = "done"
        /\ upload[r].content_type = "application/pdf"
        /\ upload[r].valid
        /\ AllWhitespace(upload[r].pages)
        /\ \E i \in DOMAIN upload[r].pages : upload[r].pages[i].k = "str"
        /\ "extract" \in effects[r]
        /\ resp[r].status = 400

\* C4: a request persists one complete record or nothing: every file of the
\* storage directory is the complete record of a request that returned it,
\* or the file a request is writing at this moment.
C4_AllOrNothing ==
    \A key \in DOMAIN storage :
        \/ key \in CreatedKeys /\ storage[key].complete
        \/ \E r \in Requests : pc[r] = "writing" /\ SavePath(new_analysis[r]) = key

\* C5 as claimed: GET /analyses succeeds, and of two persisted records the
\* one created first comes later in the list, whatever order the directory
\* is enumerated in.
C5_CreationOrder ==
    \A order \in Orders(DOMAIN storage) :
        LET res == ListHistory(storage, order) IN
        /\ res.status = 200
        /\ \A i, j \in DOMAIN created :
             i < j => /\ created[i].key \in {ListedIds(res)[p] : p \in DOMAIN ListedIds(res)}
                      /\ created[j].key \in {ListedIds(res)[p] : p \in DOMAIN ListedIds(res)}
                      /\ PlaceOf(ListedIds(res), created[i].key)
                           > PlaceOf(ListedIds(res), created[j].key)

\* C5 as amended: GET /analyses succeeds; no entry of the list was created
\* at an earlier clock reading than an entry after it; every persisted
\* record is listed; and of two persisted records the one created first
\* comes later in the list when its clock reading is strictly earlier.
C5_TimestampOrder ==
    \A order \in Orders(DOMAIN storage) :
        LET res == ListHistory(storage, order)
            ids == ListedIds(res) IN
        /\ res.status = 200
        /\ \A p, q \in DOMAIN ids :
             p < q => ~Earlier(CreatedAt(ids[p]), CreatedAt(ids[q]))
        /\ \A i, j \in DOMAIN created :
             i < j => /\ created[i].key \in {ids[p] : p \in DOMAIN ids}
                      /\ created[j].key \in {ids[p] : p \in DOMAIN ids}
                      /\ Earlier(created[i].at, created[j].at)
                           => PlaceOf(ids, created[i].key) > PlaceOf(ids, created[j].key)

\* Two records were created at different clock readings, the earlier one
\* on a full second, and the latest step served a list of two entries with
\* the later record first.
C5_Witness ==
    /\ Len(created) >= 2
    /\ Earlier(created[1].at, created[2].at)
    /\ created[1].at.microsecond = 0
    /\ created[2].at.second = created[1].at.second
    /\ getResp.op = "list"
    /\ getResp.status = 200
    /\ Len(getResp.body.v) = 2
    /\ getResp.body.v[1].v["id"].v = created[2].key

\* C6: when no request is in the middle of a write, GET /analyses/{id}
\* answers 404 for every identifier that no successful POST /parse-resume
\* has produced (the answer is a function of the storage directory, which
\* no GET changes).
C6_UnknownIdNotFound ==
    (\A r \in Requests : pc[r] # "writing")
      => \A id \in AskedIds \cup DOMAIN storage :
            id \notin CreatedKeys => AnalysisDetail(storage, id).status = 404

\* C7: GET /analyses answers 200 whatever the storage directory holds and
\* in whatever order it is enumerated.
C7_ListAlwaysSucceeds ==
    \A order \in Orders(DOMAIN storage) : ListHistory(storage, order).status = 200

\* C8: no step changes or removes a complete record file.
C8_RecordsImmutable ==
    [][\A key \in DOMAIN storage :
          storage[key].complete => key \in DOMAIN storage' /\ storage'[key] = storage[key]]_vars

\* A record was persisted, a second record was persisted after it, and the
\* latest step served a GET request.
C8_Witness ==
    /\ Len(created) >= 2
    /\ storage[created[1].key].complete
    /\ getResp.op # "none"

\* C9: every file of the storage directory that holds an id member is
\* stored under that id, every complete file holds one, no two persisted
\* records share a file name, and no two requests have built records with
\* the same id.
C9_UniqueIds ==
    /\ \A key \in DOMAIN storage :
         /\ \A i \in DOMAIN storage[key].members :
              storage[key].members[i].key = "id"
                => storage[key].members[i].value = JString(key)
         /\ storage[key].complete
              => \E i \in DOMAIN storage[key].members : storage[key].members[i].key = "id"
    /\ \A i, j \in DOMAIN created : created[i].key = created[j].key => i = j
    /\ \A r, q \in Requests :
         (r # q /\ new_analysis[r].k = "dict" /\ new_analysis[q].k = "dict")
           => new_analysis[r].v["id"] # new_analysis[q].v["id"]

\* Two records are persisted, both built from uploads of the same name.
C9_Witness ==
    /\ Len(created) >= 2
    /\ \E r, q \in Requests :
         /\ r # q
         /\ Succeeded(r)
         /\ Succeeded(q)
         /\ resp[r].body.v["filename"] = resp[q].body.v["filename"]

\* The JSON value a field of a record has when the backend left it out.
ExpectedDefault(f) ==
    IF f \in {"name", "email", "phone", "summary"}
    THEN JString(<<"N", "o", "t", " ", "s", "p", "e", "c", "i", "f", "i", "e", "d">>)
    ELSE JArray(<<>>)

\* The record value got carries the backend's value given: equal for a
\* scalar and for the skills; for experience and education item by item,
\* each key the backend gave with the backend's value and each key it left
\* out with "Not specified".
Carries(f, got, given) ==
    IF f \in {"experience", "education"}
    THEN /\ got.k = "array"
         /\ Len(got.v) = Len(given.v)
         /\ \A i \in DOMAIN got.v :
              \A key \in DOMAIN got.v[i].v :
                  got.v[i].v[key] =
                      IF key \in DOMAIN given.v[i].v
                      THEN ToJson(given.v[i].v[key])
                      ELSE ExpectedDefault("name")
    ELSE got = ToJson(given)

\* The JSON value stored in the file under key for field f.
StoredField(key, f) ==
    storage[key].members[CHOOSE i \in DOMAIN storage[key].members :
                           storage[key].members[i].key = f].value

\* C10: the record a POST /parse-resume returned and persisted carries, for
\* every ResumeData field, the backend's value when the backend's object
\* names the field, and otherwise "Not specified" (name, email, phone,
\* summary) or the empty list (experience, education, skills).
C10_DefaultsFilled ==
    \A r \in Requests :
        Succeeded(r) =>
            \A f \in {"name", "email", "phone", "summary", "experience", "education", "skills"} :
                /\ IF f \in DOMAIN parsed_data[r].v
                   THEN Carries(f, resp[r].body.v[f], parsed_data[r].v[f])
                   ELSE resp[r].body.v[f] = ExpectedDefault(f)
                /\ StoredField(ReturnedId(r), f) = resp[r].body.v[f]

\* The scenario of the specification: the backend named name, email and
\* skills only, and the record was returned.
C10_Witness ==
    \E r \in Requests :
        /\ Succeeded(r)
        /\ DOMAIN parsed_data[r].v = {"name", "email", "skills"}
        /\ resp[r].body.v["phone"] = ExpectedDefault("phone")
        /\ resp[r].body.v["experience"] = JArray(<<>>)
        /\ Len(resp[r].body.v["skills"].v) = 2

=============================================================================
